---- MODULE Spec2Model ----
(***************************************************************************)
(* Model of pymads' DNS resource-record codec.                             *)
(*                                                                         *)
(*   pymads/utils.py   label codec: label2str, labels2str, str2labels      *)
(*   pymads/record.py  Record: rdata/rtype/rclass setters, pack_rdata_*,   *)
(*                     unpack_rdata_*, pack, unpack                        *)
(*                                                                         *)
(* Byte strings are sequences of integers 0..255.  Python offsets are      *)
(* 0-based and are kept 0-based here; Slice(s, a, b) is Python's s[a:b].   *)
(* Text (domain names, addresses) is a byte string of ASCII codes.         *)
(*                                                                         *)
(* Two specifications share the module:                                    *)
(*   Spec        str2labels run one loop iteration / call / return at a    *)
(*               time over small buffers, and over labels2str's output.    *)
(*   RecordSpec  a Record object under its public operations.              *)
(***************************************************************************)
EXTENDS Integers, Sequences, FiniteSets, TLC

VARIABLES
    \* ---- label codec (utils.py) ----
    input,      \* the label list handed to labels2str (<<>> for a raw buffer)
    encoded,    \* TRUE when source is labels2str(input)
    source,     \* str2labels' buffer
    start,      \* the offset of the outermost str2labels call
    offset,     \* the running frame's local `offset`
    labels,     \* the running frame's local `labels`
    stack,      \* suspended frames, outermost first: [offset, labels]
    pc,         \* "idle" | "ready" | "loop" | "return" | "done" | "failed"
    ret,        \* the value the last finished frame returned: [offset, labels]
    err,        \* the exception that ended the call, "" if none
    \* ---- Record (record.py) ----
    rec,        \* the Record object's fields
    nops,       \* operations performed so far
    last        \* the last operation on it: arguments, outcome, fields before

codecVars == <<input, encoded, source, start, offset, labels, stack, pc, ret, err>>
recordVars == <<rec, nops, last>>
vars == <<input, encoded, source, start, offset, labels, stack, pc, ret, err,
          rec, nops, last>>

(***************************************************************************)
(* Bounds of the model.                                                    *)
(***************************************************************************)
MaxLen == 4          \* longest raw buffer handed to str2labels
MaxLabels == 2       \* most labels handed to labels2str
MaxLabelLen == 1     \* longest enumerated label (the 63/64-byte ones are extra)
MaxOps == 3          \* operations on one Record, its construction included

\* Recursion depth at which the model stops following pointers.  A chain of
\* pointers that never comes back to a pointer it followed suspends at most
\* one frame per pointer position, fewer than MaxLen of them.
MaxDepth == MaxLen + 1

(***************************************************************************)
(* Python and struct primitives.                                           *)
(***************************************************************************)
Min(a, b) == IF a < b THEN a ELSE b

\* s[a:b] for 0 <= a: clipped to the sequence, never an error.
Slice(s, a, b) ==
    LET hi == Min(b, Len(s))
    IN  IF a >= hi THEN <<>> ELSE [i \in 1..(hi - a) |-> s[a + i]]

RECURSIVE BitAnd(_, _)
\* x & y on naturals.
BitAnd(x, y) ==
    IF x = 0 \/ y = 0 THEN 0
    ELSE (x % 2) * (y % 2) + 2 * BitAnd(x \div 2, y \div 2)

\* struct.unpack('!B', b) and struct.unpack('!H', b) succeed only on exactly
\* 1 and 2 bytes; otherwise struct.error.
CanUnpackB(b) == Len(b) = 1
UnpackB(b) == b[1]
CanUnpackH(b) == Len(b) = 2
UnpackH(b) == b[1] * 256 + b[2]

RECURSIVE Concat(_)
\* The concatenation of a sequence of byte strings.
Concat(ss) == IF ss = <<>> THEN <<>> ELSE Head(ss) \o Concat(Tail(ss))

(***************************************************************************)
(* utils.py: the encoder.                                                  *)
(***************************************************************************)
\* struct.pack("!B", len(label)) + label.  struct.pack raises for a length
\* above 255; the model's labels are shorter.
label2str(label) == <<Len(label)>> \o label

\* labels2str without the terminating zero byte.
labels2strNoTerminator(ls) == Concat([i \in 1..Len(ls) |-> label2str(ls[i])])

labels2str(ls) == Concat([i \in 1..Len(ls) |-> label2str(ls[i])]) \o <<0>>

(***************************************************************************)
(* utils.py: str2labels, one step per loop iteration, call and return.     *)
(***************************************************************************)
\* `length & 0xc0` is true: the branch str2labels takes for a pointer.
IsPointerByte(length) == BitAnd(length, 192) # 0

\* `pointer & (0xff-0xc0)` applied to the 16-bit field.
PointerTarget(field) == BitAnd(field, 255 - 192)

\* `pointer > len(source)`: the Bad pointer test.
IsBadPointer(pointer, src) == pointer > Len(src)

LengthField == Slice(source, offset, offset + 1)
PointerField == Slice(source, offset, offset + 2)

\* struct.error from either unpack: the buffer ends inside the field.
RaiseStructError ==
    /\ pc = "loop"
    /\ \/ ~CanUnpackB(LengthField)
       \/ /\ CanUnpackB(LengthField)
          /\ IsPointerByte(UnpackB(LengthField))
          /\ ~CanUnpackH(PointerField)
    /\ pc' = "failed"
    /\ err' = "struct.error"
    /\ UNCHANGED <<input, encoded, source, start, offset, labels, stack, ret>>
    /\ UNCHANGED recordVars

\* raise DnsError('FORMERR', 'Bad pointer')
RaiseBadPointer ==
    /\ pc = "loop"
    /\ CanUnpackB(LengthField)
    /\ IsPointerByte(UnpackB(LengthField))
    /\ CanUnpackH(PointerField)
    /\ IsBadPointer(PointerTarget(UnpackH(PointerField)), source)
    /\ pc' = "failed"
    /\ err' = "FORMERR"
    /\ UNCHANGED <<input, encoded, source, start, offset, labels, stack, ret>>
    /\ UNCHANGED recordVars

\* str2labels with a recursion limit of 3 frames, failing beyond it.
FollowPointerDepthLimited ==
    /\ pc = "loop"
    /\ CanUnpackB(LengthField)
    /\ IsPointerByte(UnpackB(LengthField))
    /\ CanUnpackH(PointerField)
    /\ ~IsBadPointer(PointerTarget(UnpackH(PointerField)), source)
    /\ IF Len(stack) >= 3
       THEN /\ pc' = "failed"
            /\ err' = "FORMERR"
            /\ UNCHANGED <<offset, labels, stack>>
       ELSE /\ stack' = Append(stack, [offset |-> offset, labels |-> labels])
            /\ offset' = PointerTarget(UnpackH(PointerField))
            /\ labels' = <<>>
            /\ UNCHANGED <<pc, err>>
    /\ UNCHANGED <<input, encoded, source, start, ret>>
    /\ UNCHANGED recordVars

\* str2labels(source, pointer): the running frame is suspended at the
\* pointer and a new frame starts at the target with labels = [].
FollowPointer ==
    /\ pc = "loop"
    /\ CanUnpackB(LengthField)
    /\ IsPointerByte(UnpackB(LengthField))
    /\ CanUnpackH(PointerField)
    /\ ~IsBadPointer(PointerTarget(UnpackH(PointerField)), source)
    /\ Len(stack) < MaxDepth
    /\ stack' = Append(stack, [offset |-> offset, labels |-> labels])
    /\ offset' = PointerTarget(UnpackH(PointerField))
    /\ labels' = <<>>
    /\ UNCHANGED <<input, encoded, source, start, pc, ret, err>>
    /\ UNCHANGED recordVars

\* A non-zero, non-pointer length byte: offset += 1; label = source[offset:
\* offset+length]; offset += length; labels.append(label).
ReadLabel ==
    /\ pc = "loop"
    /\ CanUnpackB(LengthField)
    /\ ~IsPointerByte(UnpackB(LengthField))
    /\ UnpackB(LengthField) # 0
    /\ LET length == UnpackB(LengthField)
       IN  /\ labels' = Append(labels, Slice(source, offset + 1, offset + 1 + length))
           /\ offset' = offset + 1 + length
    /\ UNCHANGED <<input, encoded, source, start, stack, pc, ret, err>>
    /\ UNCHANGED recordVars

\* length == 0: offset += 1; break; return offset, labels.
ReadTerminator ==
    /\ pc = "loop"
    /\ CanUnpackB(LengthField)
    /\ UnpackB(LengthField) = 0
    /\ offset' = offset + 1
    /\ ret' = [offset |-> offset + 1, labels |-> labels]
    /\ pc' = "return"
    /\ UNCHANGED <<input, encoded, source, start, labels, stack, err>>
    /\ UNCHANGED recordVars

\* The value a frame suspended at a pointer returns once the call it made
\* has returned r: `return offset+2, str2labels(source, pointer)[1]`.
PointerReturn(frame, r) == [offset |-> frame.offset + 2, labels |-> r.labels]

\* A frame's return reaches its caller, or ends the outermost call.
Return ==
    /\ pc = "return"
    /\ IF stack = <<>>
       THEN /\ pc' = "done"
            /\ UNCHANGED <<offset, labels, stack, ret>>
       ELSE LET frame == stack[Len(stack)]
            IN  /\ stack' = SubSeq(stack, 1, Len(stack) - 1)
                /\ offset' = frame.offset
                /\ labels' = frame.labels
                /\ ret' = PointerReturn(frame, ret)
                /\ pc' = "return"
    /\ UNCHANGED <<input, encoded, source, start, err>>
    /\ UNCHANGED recordVars

\* packed = labels2str(input)
Encode ==
    /\ pc = "idle"
    /\ source' = labels2str(input)
    /\ encoded' = TRUE
    /\ pc' = "ready"
    /\ UNCHANGED <<input, start, offset, labels, stack, ret, err>>
    /\ UNCHANGED recordVars

\* The offsets str2labels is called at: any offset of a raw buffer, the
\* beginning of an encoded name.
CallOffsets == IF encoded THEN {0} ELSE 0..Len(source)

\* str2labels(source, o)
Call ==
    /\ pc = "ready"
    /\ \E o \in CallOffsets :
          /\ start' = o
          /\ offset' = o
    /\ labels' = <<>>
    /\ stack' = <<>>
    /\ pc' = "loop"
    /\ UNCHANGED <<input, encoded, source, ret, err>>
    /\ UNCHANGED recordVars

(***************************************************************************)
(* utils.py: str2labels as one call, for Record.  The result is            *)
(* [st |-> "ok", offset, labels] or [st |-> <the exception>].  A pointer   *)
(* chain deeper than the buffer is long has come back to an offset it      *)
(* started from and never returns; CPython ends it with RecursionError.    *)
(***************************************************************************)
Raised(e) == [st |-> e]

\* The value the frame at off returns once the call it made returned r.
AfterPointer(off, labs, r) ==
    IF r.st # "ok" THEN r
    ELSE [st |-> "ok"] @@ PointerReturn([offset |-> off, labels |-> labs], r)

RECURSIVE str2labelsLoop(_, _, _, _)
str2labelsLoop(src, off, labs, depth) ==
    IF ~CanUnpackB(Slice(src, off, off + 1)) THEN Raised("struct.error")
    ELSE IF IsPointerByte(UnpackB(Slice(src, off, off + 1)))
    THEN IF ~CanUnpackH(Slice(src, off, off + 2)) THEN Raised("struct.error")
         ELSE IF IsBadPointer(PointerTarget(UnpackH(Slice(src, off, off + 2))), src)
         THEN Raised("FORMERR")
         ELSE IF depth > Len(src) THEN Raised("RecursionError")
         ELSE AfterPointer(off, labs,
                           str2labelsLoop(src,
                                          PointerTarget(UnpackH(Slice(src, off, off + 2))),
                                          <<>>, depth + 1))
    ELSE IF UnpackB(Slice(src, off, off + 1)) = 0
    THEN [st |-> "ok", offset |-> off + 1, labels |-> labs]
    ELSE str2labelsLoop(src, off + 1 + UnpackB(Slice(src, off, off + 1)),
                        Append(labs, Slice(src, off + 1,
                                           off + 1 + UnpackB(Slice(src, off, off + 1)))),
                        depth)

str2labels(src, off) == str2labelsLoop(src, off, <<>>, 0)

(***************************************************************************)
(* Text: str.split, str.join, and the socket library's address parsers.    *)
(* A character is its ASCII code.                                          *)
(***************************************************************************)
Dot == 46
Colon == 58
Digit(n) == 48 + n

RECURSIVE Split(_, _)
\* text.split(sep) for a one-character separator.
Split(text, sep) ==
    IF \E i \in 1..Len(text) : text[i] = sep
    THEN LET i == CHOOSE k \in 1..Len(text) :
                     text[k] = sep /\ \A j \in 1..(k - 1) : text[j] # sep
         IN  <<SubSeq(text, 1, i - 1)>> \o Split(SubSeq(text, i + 1, Len(text)), sep)
    ELSE <<text>>

RECURSIVE Join(_, _)
\* sep.join(parts)
Join(parts, sep) ==
    IF parts = <<>> THEN <<>>
    ELSE IF Len(parts) = 1 THEN parts[1]
    ELSE parts[1] \o <<sep>> \o Join(Tail(parts), sep)

IsDigit(c) == c \in 48..57
IsHexDigit(c) == c \in 48..57 \/ c \in 97..102 \/ c \in 65..70
HexValue(c) == IF c \in 48..57 THEN c - 48 ELSE IF c \in 97..102 THEN c - 87 ELSE c - 55
HexChar(v) == IF v < 10 THEN 48 + v ELSE 87 + v

RECURSIVE DecValue(_)
DecValue(t) == IF t = <<>> THEN 0 ELSE 10 * DecValue(SubSeq(t, 1, Len(t) - 1)) + t[Len(t)] - 48

RECURSIVE FormatDec(_)
\* "%d" for a natural
FormatDec(n) == IF n < 10 THEN <<Digit(n)>> ELSE FormatDec(n \div 10) \o <<Digit(n % 10)>>

RECURSIVE HexWordValue(_)
HexWordValue(t) ==
    IF t = <<>> THEN 0 ELSE 16 * HexWordValue(SubSeq(t, 1, Len(t) - 1)) + HexValue(t[Len(t)])

RECURSIVE FormatHex(_)
\* "%x" for a natural
FormatHex(n) == IF n < 16 THEN <<HexChar(n)>> ELSE FormatHex(n \div 16) \o <<HexChar(n % 16)>>

\* One octet of a dotted quad: 1 to 3 digits, no leading zero, at most 255.
IsOctetText(t) ==
    /\ Len(t) \in 1..3
    /\ \A i \in 1..Len(t) : IsDigit(t[i])
    /\ Len(t) > 1 => t[1] # Digit(0)
    /\ DecValue(t) <= 255

Parsed(v) == [ok |-> TRUE, v |-> v]
NotParsed == [ok |-> FALSE, v |-> <<>>]

QuadBytes(parts) ==
    IF Len(parts) = 4 /\ \A i \in 1..4 : IsOctetText(parts[i])
    THEN Parsed([i \in 1..4 |-> DecValue(parts[i])])
    ELSE NotParsed

\* inet_pton(AF_INET, text): [ok, v]; not ok is socket.error.
inet_pton4(text) == QuadBytes(Split(text, Dot))

\* inet_ntop(AF_INET, packed): ValueError unless 4 bytes.
inet_ntop4(packed) ==
    IF Len(packed) = 4
    THEN Parsed(Join([i \in 1..4 |-> FormatDec(packed[i])], Dot))
    ELSE NotParsed

IsHexGroup(t) == Len(t) \in 1..4 /\ \A i \in 1..Len(t) : IsHexDigit(t[i])

\* The 16-bit words of the first n groups, all hexadecimal, then tail.
HexWords(groups, n, tail) ==
    IF \A i \in 1..n : IsHexGroup(groups[i])
    THEN Parsed([i \in 1..n |-> HexWordValue(groups[i])] \o tail)
    ELSE NotParsed

\* The words of a run of groups whose last group, parsed as a dotted quad,
\* gave q: a quad is worth two words.
GroupWordsWithQuad(groups, q) ==
    IF q.ok
    THEN HexWords(groups, Len(groups) - 1, <<q.v[1] * 256 + q.v[2], q.v[3] * 256 + q.v[4]>>)
    ELSE HexWords(groups, Len(groups), <<>>)

\* The words of a colon-separated run of groups; "" is no group.
GroupWords(text, lastMayBeQuad) ==
    IF text = <<>> THEN Parsed(<<>>)
    ELSE IF lastMayBeQuad
    THEN GroupWordsWithQuad(Split(text, Colon),
                            inet_pton4(Split(text, Colon)[Len(Split(text, Colon))]))
    ELSE HexWords(Split(text, Colon), Len(Split(text, Colon)), <<>>)

WordsToBytes(words) ==
    [i \in 1..(2 * Len(words)) |->
        IF i % 2 = 1 THEN words[(i + 1) \div 2] \div 256 ELSE words[i \div 2] % 256]

\* Eight words written out in full.
EightWords(w) ==
    IF w.ok /\ Len(w.v) = 8 THEN Parsed(WordsToBytes(w.v)) ELSE NotParsed

\* The words left and right of "::", which stands for the zero words between.
AroundGap(lw, rw) ==
    IF lw.ok /\ rw.ok /\ Len(lw.v) + Len(rw.v) <= 7
    THEN Parsed(WordsToBytes(lw.v \o [i \in 1..(8 - Len(lw.v) - Len(rw.v)) |-> 0] \o rw.v))
    ELSE NotParsed

\* The positions of "::" in text.
Gaps(text) == {i \in 1..(Len(text) - 1) : text[i] = Colon /\ text[i + 1] = Colon}

SplitAtGap(text, g) ==
    AroundGap(GroupWords(SubSeq(text, 1, g - 1), FALSE),
              GroupWords(SubSeq(text, g + 2, Len(text)), TRUE))

\* inet_pton(AF_INET6, text): eight groups, or fewer around one "::".
inet_pton6(text) ==
    IF text = <<>> THEN NotParsed
    ELSE IF Gaps(text) = {} THEN EightWords(GroupWords(text, TRUE))
    ELSE SplitAtGap(text, CHOOSE i \in Gaps(text) : \A j \in Gaps(text) : i <= j)

\* The length of the run of zero words starting at word i.
RECURSIVE ZeroRun(_, _)
ZeroRun(words, i) ==
    IF i > Len(words) \/ words[i] # 0 THEN 0 ELSE 1 + ZeroRun(words, i + 1)

\* Where runs of two or more zero words start.
RunStarts(words) ==
    {i \in 1..8 : ZeroRun(words, i) >= 2 /\ (i = 1 \/ words[i - 1] # 0)}

\* The first longest of them, 0 if there is none.
BestRun(words, starts) ==
    IF starts = {} THEN 0
    ELSE CHOOSE i \in starts :
            \A j \in starts :
                \/ ZeroRun(words, i) > ZeroRun(words, j)
                \/ ZeroRun(words, i) = ZeroRun(words, j) /\ i <= j

\* The text with words best .. best + bestLen - 1 written "::"; quad: the
\* last two words are written as a dotted quad.
FormatAroundRun(packed, words, best, bestLen, quad) ==
    Join([i \in 1..(best - 1) |-> FormatHex(words[i])], Colon)
    \o <<Colon, Colon>>
    \o Join([k \in 1..((IF quad THEN 6 ELSE 8) - (best + bestLen) + 1) |->
                 FormatHex(words[best + bestLen + k - 1])]
            \o (IF quad THEN <<inet_ntop4(SubSeq(packed, 13, 16)).v>> ELSE <<>>),
            Colon)

FormatWords(packed, words, best) ==
    IF best = 0 THEN Join([i \in 1..8 |-> FormatHex(words[i])], Colon)
    ELSE FormatAroundRun(packed, words, best, ZeroRun(words, best),
                         best = 1 /\ (\/ ZeroRun(words, best) = 6
                                      \/ ZeroRun(words, best) = 5 /\ words[6] = 65535))

WordsOf(packed) == [i \in 1..8 |-> packed[2 * i - 1] * 256 + packed[2 * i]]

\* inet_ntop(AF_INET6, packed): ValueError unless 16 bytes.  The first
\* longest run of two or more zero words is written "::"; lower-case hex
\* without leading zeros; an address of 96 zero bits, or of 80 zero bits and
\* ffff, ends in a dotted quad.
inet_ntop6(packed) ==
    IF Len(packed) # 16 THEN NotParsed
    ELSE Parsed(FormatWords(packed, WordsOf(packed),
                            BestRun(WordsOf(packed), RunStarts(WordsOf(packed)))))

(***************************************************************************)
(* struct.pack / struct.unpack of the big-endian integer fields.  The      *)
(* model's integers end at 2^31 - 1, so unsigned 32-bit fields are used    *)
(* with their top bit clear.                                               *)
(***************************************************************************)
CanPackU16(n) == n \in 0..65535
U16Bytes(n) == <<n \div 256, n % 256>>
U16Value(b) == b[1] * 256 + b[2]

CanPackU32(n) == n >= 0
U32Bytes(n) == <<n \div 16777216, (n \div 65536) % 256, (n \div 256) % 256, n % 256>>
U32Value(b) == ((b[1] * 256 + b[2]) * 256 + b[3]) * 256 + b[4]

\* Two's complement: a negative n is the complement of -n - 1.
I32Bytes(n) ==
    IF n >= 0 THEN U32Bytes(n) ELSE [i \in 1..4 |-> 255 - U32Bytes(-n - 1)[i]]
I32Value(b) ==
    IF b[1] < 128 THEN U32Value(b) ELSE -U32Value([i \in 1..4 |-> 255 - b[i]]) - 1

(***************************************************************************)
(* pymads.const, the type and class registry: RECORD_TYPES, RECORD_CLASSES *)
(* and get_label.  A value handed to get_label is a symbolic label or a    *)
(* numeric code.                                                           *)
(***************************************************************************)
RECORD_TYPES == [A |-> 1, NS |-> 2, CNAME |-> 5, SOA |-> 6, TXT |-> 16, AAAA |-> 28]
RECORD_CLASSES == [IN |-> 1, CH |-> 3]

AsLabel(l) == [k |-> "label", label |-> l, code |-> 0]
AsCode(n) == [k |-> "code", label |-> "", code |-> n]

\* [ok, v]: the canonical label, or the lookup failure.
get_label(table, value) ==
    IF value.k = "label"
    THEN [ok |-> value.label \in DOMAIN table, v |-> value.label]
    ELSE IF \E l \in DOMAIN table : table[l] = value.code
         THEN [ok |-> TRUE, v |-> CHOOSE l \in DOMAIN table : table[l] = value.code]
         ELSE [ok |-> FALSE, v |-> ""]

(***************************************************************************)
(* record.py: rdata values.  A byte or text string, an SOAType, or the     *)
(* tuple and dict forms pack_rdata_zone accepts; names holds the leading   *)
(* text items and nums the integers that follow.                           *)
(***************************************************************************)
SOAFields == {"mname", "rname", "serial", "refresh", "retry", "expire", "minimum"}

StrData(t) == [kind |-> "str", text |-> t, names |-> <<>>, nums |-> <<>>, keys |-> {}]
SOAType(names, nums) ==
    [kind |-> "soa", text |-> <<>>, names |-> names, nums |-> nums, keys |-> {}]
TupleData(names, nums) ==
    [kind |-> "tuple", text |-> <<>>, names |-> names, nums |-> nums, keys |-> {}]
DictData(keys, names, nums) ==
    [kind |-> "dict", text |-> <<>>, names |-> names, nums |-> nums, keys |-> keys]

\* Record.packtype
packtype(rtype) ==
    IF rtype \in {"A"} THEN "IPv4"
    ELSE IF rtype \in {"AAAA"} THEN "IPv6"
    ELSE IF rtype \in {"NS", "CNAME"} THEN "domain"
    ELSE IF rtype \in {"SOA"} THEN "zone"
    ELSE "unknown"

\* The outcome of packing: [ok, err, rdata, packed]; rdata is the value
\* self._rdata holds afterwards (pack_rdata_zone may have replaced it).
Packed(rdata, bytes) == [ok |-> TRUE, err |-> "", rdata |-> rdata, packed |-> bytes]
PackFailed(rdata, e) == [ok |-> FALSE, err |-> e, rdata |-> rdata, packed |-> <<>>]

\* The address parser's answer p as the outcome of packing.
PackedAddress(rdata, p) ==
    IF p.ok THEN Packed(rdata, p.v) ELSE PackFailed(rdata, "socket.error")

\* Record.pack_rdata_IPv4
pack_rdata_IPv4(rdata) ==
    IF rdata.kind # "str" THEN PackFailed(rdata, "TypeError")
    ELSE PackedAddress(rdata, inet_pton4(rdata.text))

\* Record.pack_rdata_IPv6
pack_rdata_IPv6(rdata) ==
    IF rdata.kind # "str" THEN PackFailed(rdata, "TypeError")
    ELSE PackedAddress(rdata, inet_pton6(rdata.text))

\* Record.pack_rdata_domain
pack_rdata_domain(rdata) ==
    IF rdata.kind # "str" THEN PackFailed(rdata, "AttributeError")
    ELSE Packed(rdata, labels2str(Split(rdata.text, Dot)))

\* The last three statements of pack_rdata_zone, on an SOAType.
pack_soa(soa) ==
    IF /\ CanPackU32(soa.nums[1])
       /\ CanPackU32(soa.nums[5])
    THEN Packed(soa, labels2str(Split(soa.names[1], Dot))
                     \o labels2str(Split(soa.names[2], Dot))
                     \o U32Bytes(soa.nums[1]) \o I32Bytes(soa.nums[2])
                     \o I32Bytes(soa.nums[3]) \o I32Bytes(soa.nums[4])
                     \o U32Bytes(soa.nums[5]))
    ELSE PackFailed(soa, "struct.error")

\* What pack_rdata_zone turns self.rdata into before it packs: a dict or a
\* tuple is replaced, through the rdata setter, by an SOAType.  [ok, v]; not
\* ok is the TypeError of a wrong key set or arity, the AttributeError of a
\* string.
soa_of(rdata) ==
    IF rdata.kind = "dict"
    THEN [ok |-> rdata.keys = SOAFields, err |-> "TypeError",
          v |-> SOAType(rdata.names, rdata.nums)]
    ELSE IF rdata.kind = "tuple"
    THEN [ok |-> Len(rdata.names) = 2 /\ Len(rdata.nums) = 5, err |-> "TypeError",
          v |-> SOAType(rdata.names, rdata.nums)]
    ELSE [ok |-> rdata.kind = "soa", err |-> "AttributeError", v |-> rdata]

\* Record.pack_rdata_zone.  A failure after the replacement leaves the
\* SOAType in self._rdata.
pack_rdata_zone(rdata) ==
    IF soa_of(rdata).ok THEN pack_soa(soa_of(rdata).v)
    ELSE PackFailed(rdata, soa_of(rdata).err)

\* Record.pack_rdata: dispatch on packtype; no pack_rdata_unknown exists, so
\* an unknown type returns self.rdata as it is.
pack_rdata(rtype, rdata) ==
    CASE packtype(rtype) = "IPv4" -> pack_rdata_IPv4(rdata)
      [] packtype(rtype) = "IPv6" -> pack_rdata_IPv6(rdata)
      [] packtype(rtype) = "domain" -> pack_rdata_domain(rdata)
      [] packtype(rtype) = "zone" -> pack_rdata_zone(rdata)
      [] OTHER -> Packed(rdata, rdata.text)

\* The outcome of an operation on the object: [ok, err, rec, next].
Done(r, next) == [ok |-> TRUE, err |-> "", rec |-> r, next |-> next]
Failed(e, r) == [ok |-> FALSE, err |-> e, rec |-> r, next |-> 0]

\* self._rdata = value; self.rdata_packed = p, or the exception p is: then
\* _rdata is already assigned and rdata_packed is not.
assign_rdata(r, p) ==
    IF p.ok THEN Done([r EXCEPT !.rdata = p.rdata, !.rdata_packed = p.packed], 0)
    ELSE Failed(p.err, [r EXCEPT !.rdata = p.rdata])

\* The rdata setter: self._rdata = value; self.rdata_packed = self.pack_rdata().
set_rdata(r, value) == assign_rdata(r, pack_rdata(r.rtype, value))

\* self._rtype = l, or the lookup failure l is.
assign_rtype(r, l) ==
    IF l.ok THEN Done([r EXCEPT !.rtype = l.v], 0) ELSE Failed("KeyError", r)

\* The rtype setter: self._rtype = const.get_label(const.RECORD_TYPES, value)
set_rtype(r, value) == assign_rtype(r, get_label(RECORD_TYPES, value))

assign_rclass(r, l) ==
    IF l.ok THEN Done([r EXCEPT !.rclass = l.v], 0) ELSE Failed("KeyError", r)

\* The rclass setter
set_rclass(r, value) == assign_rclass(r, get_label(RECORD_CLASSES, value))

\* The outcome of decoding rdata: [ok, err, v].
Unpacked(v) == [ok |-> TRUE, err |-> "", v |-> v]
UnpackFailed(e) == [ok |-> FALSE, err |-> e, v |-> StrData(<<>>)]

\* The address formatter's answer p as the outcome of decoding.
UnpackedAddress(p) ==
    IF p.ok THEN Unpacked(StrData(p.v)) ELSE UnpackFailed("ValueError")

\* Record.unpack_rdata_subset_IPv4
unpack_rdata_subset_IPv4(subset) == UnpackedAddress(inet_ntop4(subset))

\* Record.unpack_rdata_subset_IPv6
unpack_rdata_subset_IPv6(subset) == UnpackedAddress(inet_ntop6(subset))

\* '.'.join(...) of the labels str2labels returned, or its exception.
JoinedName(n) ==
    IF n.st = "ok" THEN Unpacked(StrData(Join(n.labels, Dot))) ELSE UnpackFailed(n.st)

\* Record.unpack_rdata_offset_domain
unpack_rdata_offset_domain(data, off, length) == JoinedName(str2labels(data, off))

\* struct.unpack("!IiiiI", data[offset:offset+20]) after the two names.
soa_integers(mname, rname, f) ==
    IF Len(f) # 20 THEN UnpackFailed("struct.error")
    ELSE Unpacked(SOAType(<<Join(mname, Dot), Join(rname, Dot)>>,
                          <<U32Value(SubSeq(f, 1, 4)), I32Value(SubSeq(f, 5, 8)),
                            I32Value(SubSeq(f, 9, 12)), I32Value(SubSeq(f, 13, 16)),
                            U32Value(SubSeq(f, 17, 20))>>))

\* offset, rname = utils.str2labels(data, offset), then the integers.
soa_rname(data, m, r) ==
    IF r.st # "ok" THEN UnpackFailed(r.st)
    ELSE soa_integers(m.labels, r.labels, Slice(data, r.offset, r.offset + 20))

\* offset, mname = utils.str2labels(data, offset), then the rest.
soa_mname(data, m) ==
    IF m.st # "ok" THEN UnpackFailed(m.st)
    ELSE soa_rname(data, m, str2labels(data, m.offset))

\* Record.unpack_rdata_offset_zone
unpack_rdata_offset_zone(data, off, length) == soa_mname(data, str2labels(data, off))

\* Record.unpack_rdata: the subset decoder of the pack type if there is one,
\* else its offset decoder, else the subset itself.
unpack_rdata(rtype, data, off, length) ==
    CASE packtype(rtype) = "IPv4" ->
             unpack_rdata_subset_IPv4(Slice(data, off, off + length))
      [] packtype(rtype) = "IPv6" ->
             unpack_rdata_subset_IPv6(Slice(data, off, off + length))
      [] packtype(rtype) = "domain" -> unpack_rdata_offset_domain(data, off, length)
      [] packtype(rtype) = "zone" -> unpack_rdata_offset_zone(data, off, length)
      [] OTHER -> Unpacked(StrData(Slice(data, off, off + length)))

\* Record.pack: [ok, err, packed].
pack(r) ==
    IF CanPackU32(r.rttl) /\ CanPackU16(Len(r.rdata_packed))
    THEN [ok |-> TRUE, err |-> "",
          packed |-> labels2str(Split(r.domain_name, Dot))
                     \o U16Bytes(RECORD_TYPES[r.rtype])
                     \o U16Bytes(RECORD_CLASSES[r.rclass])
                     \o U32Bytes(r.rttl)
                     \o U16Bytes(Len(r.rdata_packed))
                     \o r.rdata_packed]
    ELSE [ok |-> FALSE, err |-> "struct.error", packed |-> <<>>]

\* unpack's return value with the 10 header bytes left out.
next_offset_without_header(nameEnd, rdata_len) == nameEnd + rdata_len

\* offset += 10; ...; return offset + rdata_len
next_offset(nameEnd, rdata_len) == nameEnd + 10 + rdata_len

(***************************************************************************)
(* Record.unpack, statement by statement.  The fields are assigned one     *)
(* after the other, so an exception leaves the ones already assigned.      *)
(***************************************************************************)
\* self.rdata = <d>; return offset + rdata_len
unpack_assign_rdata(s, nameEnd, rdata_len) ==
    IF s.ok THEN Done(s.rec, next_offset(nameEnd, rdata_len)) ELSE s

\* self.rdata = self.unpack_rdata(source, offset, rdata_len), d its outcome
unpack_set_rdata(r, d, nameEnd, rdata_len) ==
    IF ~d.ok THEN Failed(d.err, r)
    ELSE unpack_assign_rdata(set_rdata(r, d.v), nameEnd, rdata_len)

\* self.rttl = ...; offset += 10; then the rdata
unpack_rttl(c, src, nameEnd, hdr) ==
    IF ~c.ok THEN c
    ELSE unpack_set_rdata([c.rec EXCEPT !.rttl = U32Value(SubSeq(hdr, 5, 8))],
                          unpack_rdata(c.rec.rtype, src, nameEnd + 10,
                                       U16Value(SubSeq(hdr, 9, 10))),
                          nameEnd, U16Value(SubSeq(hdr, 9, 10)))

\* self.rclass = ..., after self.rtype = ... ended as t
unpack_rclass(t, src, nameEnd, hdr) ==
    IF ~t.ok THEN t
    ELSE unpack_rttl(set_rclass(t.rec, AsCode(U16Value(SubSeq(hdr, 3, 4)))),
                     src, nameEnd, hdr)

\* struct.unpack("!HHIH", source[offset:offset+10]), then self.rtype = ...
unpack_header(r, src, nameEnd, hdr) ==
    IF Len(hdr) # 10 THEN Failed("struct.error", r)
    ELSE unpack_rclass(set_rtype(r, AsCode(U16Value(SubSeq(hdr, 1, 2)))),
                       src, nameEnd, hdr)

\* self.domain_name = '.'.join(labels), n what str2labels returned
unpack_name(r, src, n) ==
    IF n.st # "ok" THEN Failed(n.st, r)
    ELSE unpack_header([r EXCEPT !.domain_name = Join(n.labels, Dot)],
                       src, n.offset, Slice(src, n.offset, n.offset + 10))

\* Record.unpack: [ok, err, rec, next].
unpack(r, src, off) == unpack_name(r, src, str2labels(src, off))

\* Record.__init__, once rtype and rclass are looked up as t and c.
construct_with(domain_name, rdata, t, rttl, c) ==
    IF ~t.ok \/ ~c.ok THEN Failed("KeyError", [domain_name |-> domain_name])
    ELSE set_rdata([domain_name |-> domain_name, rtype |-> t.v, rclass |-> c.v,
                    rttl |-> rttl, rdata |-> rdata, rdata_packed |-> <<>>],
                   rdata)

\* Record.__init__: [ok, err, rec].  A failed constructor leaves no object.
construct(domain_name, rdata, rtype, rttl, rclass) ==
    construct_with(domain_name, rdata, get_label(RECORD_TYPES, rtype), rttl,
                   get_label(RECORD_CLASSES, rclass))

(***************************************************************************)
(* Inputs of the label codec.                                              *)
(***************************************************************************)
\* Byte values of raw buffers: the terminator, a short length, a length with
\* only bit 6 set (0x40), a letter (0x61), and a length with bits 7 and 6
\* set (0xC0).
ByteVals == {0, 1, 64, 97, 192}

SeqsUpTo(S, n) == UNION {[1..k -> S] : k \in 0..n}

Buffers == SeqsUpTo(ByteVals, MaxLen)

\* Label contents: a letter and a byte that would read as a pointer.
LabelChars == {97, 192}
LongLabel(n) == [i \in 1..n |-> 97]
Labels == SeqsUpTo(LabelChars, MaxLabelLen) \cup {LongLabel(63), LongLabel(64)}
LabelSeqs == SeqsUpTo(Labels, MaxLabels)

\* No Record object.
NoRecord ==
    [domain_name |-> <<>>, rtype |-> "", rclass |-> "", rttl |-> 0,
     rdata |-> StrData(<<>>), rdata_packed |-> <<>>]

\* One operation on the Record: what was called, with what, how it ended,
\* and the object's fields before it.
Called(op, ok, e, before, src, off, next, packed) ==
    [op |-> op, ok |-> ok, err |-> e, before |-> before,
     src |-> src, off |-> off, next |-> next, packed |-> packed]
NoCall == Called("none", TRUE, "", NoRecord, <<>>, 0, 0, <<>>)

\* The object exists and has operations left.  An exception ends the
\* caller's run: the fields it left behind are there to see, and no further
\* call is made.
Usable == rec # NoRecord /\ nops < MaxOps /\ last.ok

RecordIdle ==
    /\ rec = NoRecord
    /\ nops = 0
    /\ last = NoCall

CodecIdle ==
    /\ input = <<>>
    /\ encoded = FALSE
    /\ source = <<>>
    /\ start = 0
    /\ offset = 0
    /\ labels = <<>>
    /\ stack = <<>>
    /\ pc = "idle"
    /\ ret = [offset |-> 0, labels |-> <<>>]
    /\ err = ""

CodecInit ==
    /\ \/ /\ input \in LabelSeqs
          /\ source = <<>>
          /\ pc = "idle"
       \/ /\ input = <<>>
          /\ source \in Buffers
          /\ pc = "ready"
    /\ encoded = FALSE
    /\ start = 0
    /\ offset = 0
    /\ labels = <<>>
    /\ stack = <<>>
    /\ ret = [offset |-> 0, labels |-> <<>>]
    /\ err = ""

Init == CodecInit /\ RecordIdle

Next ==
    \/ Encode
    \/ Call
    \/ ReadLabel
    \/ ReadTerminator
    \/ FollowPointer
    \/ RaiseBadPointer
    \/ RaiseStructError
    \/ Return

Spec == Init /\ [][Next]_vars

\* str2labels runs to completion once called: nothing else is scheduled.
FairSpec == Spec /\ WF_vars(Next)

(***************************************************************************)
(* Properties of the label codec.                                          *)
(***************************************************************************)
Terminated == pc \in {"done", "failed"}

\* The outermost call decodes labels2str(input) from offset 0.
DecodesEncoding == encoded /\ start = 0 /\ pc \in {"loop", "return", "done", "failed"}

\* What the round trip promises: no failure, no pointer followed, and the
\* result (len(encoded), labels).
RoundTripResult ==
    /\ pc # "failed"
    /\ stack = <<>>
    /\ pc = "done" => ret = [offset |-> Len(source), labels |-> input]

\* C2 as stated: for any label sequence whose components are each at most 63
\* bytes long, zero-length components included, str2labels(labels2str(labels),
\* 0) returns (len(labels2str(labels)), labels).
C2_RoundTripWithEmptyLabels ==
    (DecodesEncoding /\ \A i \in 1..Len(input) : Len(input[i]) <= 63)
        => RoundTripResult

\* C2 as amended: for any label sequence whose components are each 1 to 63
\* bytes long, str2labels(labels2str(labels), 0) never fails, follows no
\* pointer and returns (len(labels2str(labels)), labels).
C2_RoundTrip ==
    (DecodesEncoding /\ \A i \in 1..Len(input) : Len(input[i]) \in 1..63)
        => RoundTripResult

\* C2's case: a two-label name with a 63-byte label has been decoded.
C2_Witness ==
    /\ DecodesEncoding
    /\ pc = "done"
    /\ Len(input) = 2
    /\ input[1] = LongLabel(63)
    /\ Len(input[2]) = 1

\* C3: a frame that read k >= 0 labels and then met a pointer at p returns
\* (p + 2, its k labels followed by the labels decoded at the target).
C3_PointerTail ==
    [][(pc = "return" /\ stack # <<>>)
          => LET frame == stack[Len(stack)]
             IN  BitAnd(source[frame.offset + 1], 192) = 192 =>
                 ret' = [offset |-> frame.offset + 2,
                         labels |-> frame.labels \o ret.labels]]_vars

\* The two bytes at the cursor are a pointer in the wire format's sense:
\* both top bits of the first byte are set.
AtWirePointer ==
    /\ pc = "loop"
    /\ CanUnpackH(PointerField)
    /\ BitAnd(PointerField[1], 192) = 192

\* The pointer's 14-bit value: (b0 & 0x3F) * 256 + b1.
WirePointerValue == BitAnd(PointerField[1], 63) * 256 + PointerField[2]

\* C4: the offset str2labels recurses into for a pointer (b0, b1) is the
\* full 14-bit value (b0 & 0x3F) * 256 + b1.
C4_PointerTargetValue ==
    [][(AtWirePointer /\ Len(stack') > Len(stack))
          => offset' = WirePointerValue]_vars

\* C5: a length byte is taken as a pointer iff both of its top bits are set;
\* any other non-zero length byte L is a literal label of L bytes, the cursor
\* advancing by 1 + L; a zero byte ends the run.
C5_PointerDetection ==
    [][(pc = "loop" /\ CanUnpackB(LengthField))
          => LET length == UnpackB(LengthField)
             IN  IF BitAnd(length, 192) = 192
                 THEN stack' # stack \/ pc' = "failed"
                 ELSE IF length = 0
                 THEN /\ pc' = "return"
                      /\ ret' = [offset |-> offset + 1, labels |-> labels]
                 ELSE /\ pc' = "loop"
                      /\ stack' = stack
                      /\ offset' = offset + 1 + length
                      /\ labels' = Append(labels,
                                          Slice(source, offset + 1, offset + 1 + length))]_vars

\* C6: a pointer whose encoded target offset exceeds the buffer length makes
\* str2labels fail with DnsError('FORMERR', 'Bad pointer').
C6_BadPointer ==
    [][(AtWirePointer /\ WirePointerValue > Len(source))
          => (pc' = "failed" /\ err' = "FORMERR")]_vars

\* The chain of pointers has come back to a pointer it already followed:
\* two suspended frames wait at the same offset.
Revisit ==
    \E i, j \in 1..Len(stack) : i < j /\ stack[i].offset = stack[j].offset

StepsAgree ==
    /\ pc = "done" =>
           str2labels(source, start)
               = [st |-> "ok", offset |-> ret.offset, labels |-> ret.labels]
    /\ pc = "failed" => str2labels(source, start) = Raised(err)
    /\ (pc = "loop" /\ Len(stack) = MaxDepth) =>
           str2labels(source, start) = Raised("RecursionError")

(***************************************************************************)
(* Inputs of the Record.                                                   *)
(***************************************************************************)
\* Owner names: "", "a.b", "a." (fully qualified).
Names == {<<>>, <<97, 46, 98>>, <<97, 46>>}

SoaNames == <<<<97>>, <<98, 46, 97>>>>
SoaNums == <<1, -1, 3600, 0, 60>>

\* Values assigned to rdata: "1.2.3.4", "::1", "0:0:0:0:0:0:0:1", "a.b",
\* "b.", the bytes ff 00, and the SOA forms: an SOAType, a 7-tuple, a
\* 6-tuple, a dict of the 7 fields, a dict without `minimum`, an SOAType
\* whose serial is negative.
RdataValues ==
    {StrData(<<49, 46, 50, 46, 51, 46, 52>>), StrData(<<58, 58, 49>>), StrData(<<48, 58, 48, 58, 48, 58, 48, 58, 48, 58, 48, 58, 48, 58, 49>>),
     StrData(<<97, 46, 98>>), StrData(<<98, 46>>), StrData(<<255, 0>>),
     SOAType(SoaNames, SoaNums),
     TupleData(SoaNames, SoaNums),
     TupleData(SoaNames, SubSeq(SoaNums, 1, 4)),
     DictData(SOAFields, SoaNames, SoaNums),
     DictData(SOAFields \ {"minimum"}, SoaNames, SubSeq(SoaNums, 1, 4)),
     SOAType(SoaNames, <<-1, 0, 0, 0, 0>>)}

TypeInputs ==
    {AsLabel(l) : l \in DOMAIN RECORD_TYPES} \cup {AsCode(1), AsCode(99), AsLabel("XX")}
ClassInputs == {AsLabel("IN"), AsCode(3), AsLabel("XX")}
Ttls == {300}

\* One record on the wire.
RR(name, typecode, classcode, ttl, rdlen, rdata) ==
    name \o U16Bytes(typecode) \o U16Bytes(classcode) \o U32Bytes(ttl)
         \o U16Bytes(rdlen) \o rdata

NameAB == labels2str(<<<<97>>, <<98>>>>)
NameC == labels2str(<<<<99>>>>)
PointerTo0 == <<192, 0>>

\* A message of two A records, the second's owner name a pointer to the
\* first's at offset 0: [bytes, first (length of the first record), name,
\* addr1, addr2].
TwoA(nameLabels, a1, a2) ==
    LET one == RR(labels2str(nameLabels), 1, 1, 300, 4, a1)
    IN  [bytes |-> one \o RR(PointerTo0, 1, 1, 300, 4, a2),
         first |-> Len(one),
         name |-> Join(nameLabels, Dot),
         addr1 |-> StrData(inet_ntop4(a1).v),
         addr2 |-> StrData(inet_ntop4(a2).v)]

TwoAMessages ==
    {TwoA(<<<<97>>, <<98>>>>, <<1, 2, 3, 4>>, <<5, 6, 7, 8>>),
     TwoA(<<<<99>>>>, <<192, 0, 2, 1>>, <<10, 0, 0, 255>>)}

SoaIntegers ==
    U32Bytes(1) \o I32Bytes(-1) \o I32Bytes(3600) \o I32Bytes(0) \o U32Bytes(60)

\* Buffers handed to unpack.
Messages ==
    {m.bytes : m \in TwoAMessages} \cup
    {\* NS whose rdata is the label "c" and a pointer to the owner name
     RR(NameAB, 2, 1, 0, 4, <<1, 99>> \o PointerTo0),
     \* CNAME whose name "c" is longer than the declared length 1
     RR(NameAB, 5, 1, 0, 1, NameC),
     \* NS whose rdata is a pointer beyond the buffer
     RR(NameAB, 2, 1, 0, 2, <<192, 97>>),
     \* SOA with both names pointers to the owner name
     RR(NameAB, 6, 1, 300, 24, PointerTo0 \o PointerTo0 \o SoaIntegers),
     \* SOA cut short inside its integers
     RR(NameAB, 6, 1, 300, 24, PointerTo0 \o PointerTo0 \o SubSeq(SoaIntegers, 1, 12)),
     \* AAAA ::1 at the root name
     RR(<<0>>, 28, 1, 300, 16, [i \in 1..16 |-> IF i = 16 THEN 1 ELSE 0]),
     \* A with 3 bytes of rdata
     RR(NameAB, 1, 1, 300, 3, <<1, 2, 3>>),
     \* a type code and a class code the registry does not know
     RR(NameC, 99, 1, 300, 4, <<1, 2, 3, 4>>),
     RR(NameC, 2, 9, 300, 2, PointerTo0),
     \* a header cut short
     NameAB \o <<0, 1, 0>>,
     \* TXT (no pack type) in class CH, and one declaring more than is there
     RR(NameAB, 16, 3, 0, 2, <<120, 121>>),
     RR(NameAB, 16, 1, 0, 5, <<120>>),
     \* an owner name that is a pointer to itself
     RR(PointerTo0, 1, 1, 300, 4, <<1, 2, 3, 4>>),
     <<>>}

(***************************************************************************)
(* record.py: the Record's public operations.                              *)
(***************************************************************************)
\* The object and the call record after an operation that ended as c.
Constructed(c) ==
    /\ rec' = IF c.ok THEN c.rec ELSE NoRecord
    /\ last' = Called("construct", c.ok, c.err, NoRecord, <<>>, 0, 0, <<>>)

Assigned(op, c) ==
    /\ rec' = c.rec
    /\ last' = Called(op, c.ok, c.err, rec, <<>>, 0, 0, <<>>)

HasPacked(c) == last' = Called("pack", c.ok, c.err, rec, <<>>, 0, 0, c.packed)

Unpacking(src, off, c) ==
    /\ rec' = c.rec
    /\ last' = Called("unpack", c.ok, c.err, rec, src, off, c.next, <<>>)

\* r = Record(domain_name, rdata, rtype, rttl, rclass).  persei's RawData
\* over a value that is no string is not part of the repository: a type
\* without a pack type is given byte strings only.
Construct ==
    /\ rec = NoRecord
    /\ nops = 0
    /\ nops' = 1
    /\ \E dn \in Names, rd \in RdataValues, ty \in TypeInputs,
          ttl \in Ttls, cl \in ClassInputs :
          /\ (get_label(RECORD_TYPES, ty).ok /\
              packtype(get_label(RECORD_TYPES, ty).v) = "unknown") => rd.kind = "str"
          /\ Constructed(construct(dn, rd, ty, ttl, cl))
    /\ UNCHANGED codecVars

\* r.rdata = value
SetRdata ==
    /\ Usable
    /\ nops' = nops + 1
    /\ \E value \in RdataValues :
          /\ packtype(rec.rtype) = "unknown" => value.kind = "str"
          /\ Assigned("set_rdata", set_rdata(rec, value))
    /\ UNCHANGED codecVars

\* r.rtype = value
SetRtype ==
    /\ Usable
    /\ nops' = nops + 1
    /\ \E value \in TypeInputs :
          Assigned("set_rtype", set_rtype(rec, value))
    /\ UNCHANGED codecVars

\* r.rclass = value
SetRclass ==
    /\ Usable
    /\ nops' = nops + 1
    /\ \E value \in ClassInputs :
          Assigned("set_rclass", set_rclass(rec, value))
    /\ UNCHANGED codecVars

\* r.pack()
Pack ==
    /\ Usable
    /\ nops' = nops + 1
    /\ HasPacked(pack(rec))
    /\ UNCHANGED rec
    /\ UNCHANGED codecVars

\* The buffers and offsets unpack is called with: a message from its
\* beginning, the bytes pack() has just returned, or the message of the last
\* unpack at the offset it returned.
UnpackCalls ==
    {<<m, 0>> : m \in Messages} \cup
    (IF last.op = "pack" /\ last.ok THEN {<<last.packed, 0>>} ELSE {}) \cup
    (IF last.op = "unpack" /\ last.ok THEN {<<last.src, last.next>>} ELSE {})

\* r.unpack(source, offset)
Unpack ==
    /\ Usable
    /\ nops' = nops + 1
    /\ \E call \in UnpackCalls :
          Unpacking(call[1], call[2], unpack(rec, call[1], call[2]))
    /\ UNCHANGED codecVars

RecordInit == CodecIdle /\ RecordIdle

RecordNext ==
    \/ Construct
    \/ SetRdata
    \/ SetRtype
    \/ SetRclass
    \/ Pack
    \/ Unpack

RecordSpec == RecordInit /\ [][RecordNext]_vars

(***************************************************************************)
(* Properties of the Record.                                               *)
(***************************************************************************)
\* rdata_packed is what pack_rdata makes of the record's rdata under its
\* type.
Consistent(r) ==
    /\ pack_rdata(r.rtype, r.rdata).ok
    /\ pack_rdata(r.rtype, r.rdata).packed = r.rdata_packed

\* The last call was r.unpack(r.pack(), 0) on a record whose rdata_packed
\* is up to date.
RoundTripCall ==
    /\ last.op = "unpack"
    /\ last.off = 0
    /\ Consistent(last.before)
    /\ pack(last.before).ok
    /\ last.src = pack(last.before).packed

\* C1: unpacking the bytes r.pack() returned, from offset 0, succeeds and
\* gives the owner name, type, class, ttl and rdata of r, for the records of
\* every pack type, owner names that end in a dot or are empty included.
C1_RecordRoundTrip ==
    RoundTripCall =>
        /\ last.ok
        /\ rec.domain_name = last.before.domain_name
        /\ rec.rtype = last.before.rtype
        /\ rec.rclass = last.before.rclass
        /\ rec.rttl = last.before.rttl
        /\ rec.rdata = last.before.rdata

\* C7: after the construction and any sequence of successful assignments of
\* rdata, rtype and rclass and successful calls of unpack, rdata_packed is
\* the encoding of the current rdata under the current type.
C7_DerivedField == (rec # NoRecord /\ last.ok) => Consistent(rec)

\* The declared data length in the header that follows the owner name ending
\* at n.
DeclaredLength(src, n) == U16Value(SubSeq(src, n + 9, n + 10))

\* C8: a successful unpack(buffer, offset) returns n + 10 + rdlen, n the
\* cursor past the owner name and rdlen the data length the header declares;
\* and in a message of two A records whose second owner name is a pointer to
\* the first, unpack at 0 returns the offset of the second record, and unpack
\* there gives the first record's owner name and the second's own address.
C8_NextRecordOffset ==
    /\ (last.op = "unpack" /\ last.ok) =>
           last.next = str2labels(last.src, last.off).offset + 10
                       + DeclaredLength(last.src, str2labels(last.src, last.off).offset)
    /\ \A m \in TwoAMessages :
           (last.op = "unpack" /\ last.src = m.bytes /\ last.off \in {0, m.first}) =>
               /\ last.ok
               /\ rec.domain_name = m.name
               /\ rec.rtype = "A"
               /\ last.off = 0 =>
                      rec.rdata = m.addr1 /\ last.next = m.first
               /\ last.off = m.first =>
                      /\ rec.rdata = m.addr2
                      /\ m.addr2 # m.addr1
                      /\ last.next = Len(m.bytes)

\* The second record of a two-record message has been unpacked at the
\* offset the first unpack returned.
C8_Witness ==
    /\ last.op = "unpack"
    /\ last.ok
    /\ \E m \in TwoAMessages :
           /\ last.src = m.bytes
           /\ last.off = m.first
           /\ last.off = Len(NameAB) + 10 + 4
           /\ last.before.domain_name = m.name
           /\ last.before.rdata = m.addr1
           /\ rec.rdata = m.addr2

\* C10: a failed assignment of rdata and a failed unpack leave domain_name,
\* rtype, rclass, rttl, rdata and rdata_packed as they were before the call.
C10_FailureLeavesRecord ==
    (last.op \in {"set_rdata", "unpack"} /\ ~last.ok) => rec = last.before

====
